---- MODULE Spec2Model ----
(***************************************************************************)
(* Model of the Telegram spam bot of src/main.go: the classifier IsSpam,   *)
(* the offense ledger (SpamDetector over the SQLite table spam_records)    *)
(* and the main loop, run by several bot processes that share one store.   *)
(* A text is a sequence of one-character strings.                          *)
(***************************************************************************)
EXTENDS Naturals, Sequences, FiniteSets

(* ------------------------------------------------------------------ *)
(* Bounds of the model                                                *)
(* ------------------------------------------------------------------ *)
MaxCalls == 3      \* RecordSpam calls of all processes together
MaxStarts == 2     \* process starts (first starts and restarts) together
MaxMsgs == 3       \* updates consumed by the observed loop
MaxFrags == 3      \* fragments of a text given to the classifier alone

Procs == {"p1", "p2"}
\* The senders: pairs (chat, user); two of them share the chat, two the user
Keys == {<<1, 1>>, <<1, 2>>, <<2, 1>>}

(* ------------------------------------------------------------------ *)
(* Classifier                                                         *)
(* ------------------------------------------------------------------ *)
Lower == <<"a", "b", "c", "d", "e", "f", "g", "h", "i", "j", "k", "l", "m",
           "n", "o", "p", "q", "r", "s", "t", "u", "v", "w", "x", "y", "z">>
Upper == <<"A", "B", "C", "D", "E", "F", "G", "H", "I", "J", "K", "L", "M",
           "N", "O", "P", "Q", "R", "S", "T", "U", "V", "W", "X", "Y", "Z">>
Digits == <<"0", "1", "2", "3", "4", "5", "6", "7", "8", "9">>

Range(f) == {f[i] : i \in DOMAIN f}
AlnumLowerChars == Range(Lower) \cup Range(Digits)
WordChars == Range(Lower) \cup Range(Upper) \cup Range(Digits) \cup {"_"}

ToLowerChar(c) ==
  IF \E i \in DOMAIN Upper : Upper[i] = c
  THEN Lower[CHOOSE i \in DOMAIN Upper : Upper[i] = c]
  ELSE c

\* strings.ToLower
ToLower(text) == [i \in DOMAIN text |-> ToLowerChar(text[i])]

MatchAt(pat, s, i) ==
  /\ i >= 1
  /\ i + Len(pat) - 1 <= Len(s)
  /\ \A j \in 1..Len(pat) : s[i + j - 1] = pat[j]

\* strings.Contains
Contains(s, pat) == \E i \in 1..(Len(s) + 1) : MatchAt(pat, s, i)

IsAlnumLower(c) == c \in AlnumLowerChars
IsLabelChar(c) == IsAlnumLower(c) \/ c = "-"
\* \w of the regexp package: [0-9A-Za-z_]
IsWordChar(c) == c \in WordChars

linkLiterals ==
  { <<"h", "t", "t", "p", ":", "/", "/">>,
    <<"h", "t", "t", "p", "s", ":", "/", "/">>,
    <<"t", ".", "m", "e", "/">>,
    <<"b", "i", "t", ".", "l", "y">>,
    <<"t", "i", "n", "y", "u", "r", "l">>,
    <<"t", "e", "l", "e", "g", "r", "a", "m", ".", "m", "e">>,
    <<"w", "w", "w", ".">> }

linkTLDs ==
  { <<"c", "o", "m">>, <<"n", "e", "t">>, <<"o", "r", "g">>, <<"i", "o">>,
    <<"m", "e">>, <<"c", "o">>, <<"x", "y", "z">>, <<"i", "n", "f", "o">>,
    <<"b", "i", "z">>, <<"t", "v">>, <<"c", "c">>, <<"r", "u">>,
    <<"k", "r">>, <<"c", "n">> }

\* Variant: no word boundary is required
WordBoundaryAfter_Any(s, e) == TRUE

\* \b after a TLD ending at position e: end of text or a non-word character
WordBoundaryAfter(s, e) == e = Len(s) \/ ~IsWordChar(s[e + 1])

\* [a-z0-9][-a-z0-9]*\.(com|net|...)\b on the case-folded text s
DomainMatch(s) ==
  \E d \in 2..Len(s) :
    /\ s[d] = "."
    /\ \E i \in 1..(d - 1) :
         /\ IsAlnumLower(s[i])
         /\ \A m \in (i + 1)..(d - 1) : IsLabelChar(s[m])
    /\ \E tld \in linkTLDs :
         /\ MatchAt(tld, s, d + 1)
         /\ WordBoundaryAfter(s, d + Len(tld))

\* linkPattern.MatchString: the pattern is (?i), modelled on the folded text
linkPattern(text) ==
  LET s == ToLower(text)
  IN  (\E lit \in linkLiterals : Contains(s, lit)) \/ DomainMatch(s)

\* mentionPattern.MatchString: @[a-zA-Z0-9_]+
mentionPattern(text) ==
  \E i \in 1..(Len(text) - 1) : text[i] = "@" /\ IsWordChar(text[i + 1])

spamKeywords ==
  << <<"e", "a", "r", "n", " ", "m", "o", "n", "e", "y">>,
     <<"m", "a", "k", "e", " ", "m", "o", "n", "e", "y", " ", "f", "a", "s", "t">>,
     <<"i", "n", "v", "e", "s", "t", "m", "e", "n", "t", " ", "o", "p", "p", "o", "r", "t", "u", "n", "i", "t", "y">>,
     <<"d", "o", "u", "b", "l", "e", " ", "y", "o", "u", "r">>,
     <<"g", "u", "a", "r", "a", "n", "t", "e", "e", "d", " ", "p", "r", "o", "f", "i", "t">>,
     <<"f", "r", "e", "e", " ", "m", "o", "n", "e", "y">>,
     <<"c", "l", "i", "c", "k", " ", "h", "e", "r", "e">>,
     <<"j", "o", "i", "n", " ", "n", "o", "w">>,
     <<"l", "i", "m", "i", "t", "e", "d", " ", "t", "i", "m", "e", " ", "o", "f", "f", "e", "r">>,
     <<"a", "c", "t", " ", "n", "o", "w">>,
     <<"d", "o", "n", "'", "t", " ", "m", "i", "s", "s">>,
     <<"e", "x", "c", "l", "u", "s", "i", "v", "e", " ", "d", "e", "a", "l">>,
     <<"w", "o", "r", "k", " ", "f", "r", "o", "m", " ", "h", "o", "m", "e">>,
     <<"b", "e", " ", "y", "o", "u", "r", " ", "o", "w", "n", " ", "b", "o", "s", "s">>,
     <<"f", "i", "n", "a", "n", "c", "i", "a", "l", " ", "f", "r", "e", "e", "d", "o", "m">>,
     <<"f", "o", "r", "e", "x", " ", "s", "i", "g", "n", "a", "l">>,
     <<"t", "r", "a", "d", "i", "n", "g", " ", "s", "i", "g", "n", "a", "l">>,
     <<"c", "a", "s", "i", "n", "o">>,
     <<"b", "e", "t", "t", "i", "n", "g">> >>

\* The reasons: a keyword reason is the pair (prefix, keyword); the Korean
\* display reasons are written by their transliteration.
ReasonURL == <<"URL detected">>
ReasonKeyword(kw) == <<"spam keyword with mention: ", kw>>
ReasonNone == <<"">>
DisplayURL == "URL gamji"
DisplayKeyword == "mention+spam keyword"
DisplayNone == ""

\* Variant: a keyword is enough, with or without a mention
IsSpam_KeywordAlone(text) ==
  LET lowerText == ToLower(text)
      hasLink == linkPattern(text)
      hits == {i \in DOMAIN spamKeywords : Contains(lowerText, spamKeywords[i])}
      first == CHOOSE i \in hits : \A j \in hits : i <= j
  IN  IF hasLink THEN <<TRUE, ReasonURL, DisplayURL>>
      ELSE IF hits # {}
           THEN <<TRUE, ReasonKeyword(spamKeywords[first]), DisplayKeyword>>
           ELSE <<FALSE, ReasonNone, DisplayNone>>

\* Variant: the keyword check comes before the link check
IsSpam_KeywordFirst(text) ==
  LET lowerText == ToLower(text)
      hasLink == linkPattern(text)
      hasMention == mentionPattern(text)
      hits == {i \in DOMAIN spamKeywords : Contains(lowerText, spamKeywords[i])}
      first == CHOOSE i \in hits : \A j \in hits : i <= j
  IN  IF hasMention /\ hits # {}
      THEN <<TRUE, ReasonKeyword(spamKeywords[first]), DisplayKeyword>>
      ELSE IF hasLink THEN <<TRUE, ReasonURL, DisplayURL>>
           ELSE <<FALSE, ReasonNone, DisplayNone>>

\* IsSpam(text) = <<isSpam, reason, reasonKR>>
IsSpam(text) ==
  LET lowerText == ToLower(text)
      hasLink == linkPattern(text)
      hasMention == mentionPattern(text)
      hits == {i \in DOMAIN spamKeywords : Contains(lowerText, spamKeywords[i])}
      first == CHOOSE i \in hits : \A j \in hits : i <= j
  IN  IF hasLink THEN <<TRUE, ReasonURL, DisplayURL>>
      ELSE IF hasMention /\ hits # {}
           THEN <<TRUE, ReasonKeyword(spamKeywords[first]), DisplayKeyword>>
           ELSE <<FALSE, ReasonNone, DisplayNone>>

(* ------------------------------------------------------------------ *)
(* Offense ledger: the table spam_records and RecordSpam              *)
(* ------------------------------------------------------------------ *)
banThreshold == 3

\* The store is the file spambot.db: whether the table exists, and its rows
\* (chat_id, user_id) -> count.
EmptyDB == [exists |-> FALSE, rows |-> <<>>]

CountOf(d, k) == IF k \in DOMAIN d.rows THEN d.rows[k] ELSE 0

\* Variant: the table is created anew at every start (DROP, then CREATE)
CreateTable_Drop(d) == [exists |-> TRUE, rows |-> <<>>]

\* CREATE TABLE IF NOT EXISTS spam_records (...)
CreateTable(d) == IF d.exists THEN d ELSE [exists |-> TRUE, rows |-> <<>>]

\* Variant: the error of the CREATE TABLE is not checked
NewSpamDetector_IgnoreCreateErr(d, openErr, createErr) ==
  IF openErr THEN [err |-> TRUE, db |-> d]
  ELSE [err |-> FALSE, db |-> IF createErr THEN d ELSE CreateTable(d)]

\* NewSpamDetector: sql.Open, then the CREATE TABLE; either error is returned
NewSpamDetector(d, openErr, createErr) ==
  IF openErr THEN [err |-> TRUE, db |-> d]
  ELSE IF createErr THEN [err |-> TRUE, db |-> d]
  ELSE [err |-> FALSE, db |-> CreateTable(d)]

\* Variant: INSERT OR IGNORE, a conflicting row is left as it is
UpsertRows_Ignore(rows, k) ==
  [x \in DOMAIN rows \cup {k} |-> IF x \in DOMAIN rows THEN rows[x] ELSE 1]

\* Variant: the conflict target is chat_id alone, every row of the chat is updated
UpsertRows_SameChat(rows, k) ==
  [x \in DOMAIN rows \cup {k} |->
     IF x[1] = k[1] /\ x \in DOMAIN rows THEN rows[x] + 1
     ELSE IF x = k THEN 1 ELSE rows[x]]

\* INSERT ... VALUES (?, ?, 1) ON CONFLICT(chat_id, user_id)
\* DO UPDATE SET count = count + 1: one statement, one row
UpsertRows(rows, k) ==
  [x \in DOMAIN rows \cup {k} |->
     IF x = k THEN (IF k \in DOMAIN rows THEN rows[k] + 1 ELSE 1) ELSE rows[x]]

\* Variant: the read-back returns the count of a new record
SelectCount_Insert(rows, k) ==
  IF k \in DOMAIN rows THEN [err |-> FALSE, count |-> 1]
  ELSE [err |-> TRUE, count |-> 0]

\* SELECT count ... WHERE chat_id = ? AND user_id = ?, scanned into count;
\* no row is sql.ErrNoRows
SelectCount(rows, k) ==
  IF k \in DOMAIN rows THEN [err |-> FALSE, count |-> rows[k]]
  ELSE [err |-> TRUE, count |-> 0]

\* Variant: only the offense that reaches the threshold bans
ShouldBan_Exact(count) == count = banThreshold

\* Variant: count > banThreshold
ShouldBan_Strict(count) == count > banThreshold

ShouldBan(count) == count >= banThreshold

\* Variant: the count before the increment is returned
RecordSpamReturn_PreIncrement(err, count) ==
  IF err THEN <<0, FALSE>> ELSE <<count - 1, ShouldBan(count - 1)>>

\* What RecordSpam returns: (0, false) on an error, else (count, count >= banThreshold)
RecordSpamReturn(err, count) ==
  IF err THEN <<0, FALSE>> ELSE <<count, ShouldBan(count)>>

(* ------------------------------------------------------------------ *)
(* Main loop: one update, up to the call of RecordSpam                *)
(* ------------------------------------------------------------------ *)
TextA == <<"C", "h", "e", "c", "k", " ", "o", "u", "t", " ", "h", "t", "t", "p", ":", "/", "/",
           "e", "x", "a", "m", "p", "l", "e", ".", "c", "o", "m", " ", "n", "o", "w", "!">>
TextB == <<"H", "e", "y", " ", "@", "s", "o", "m", "e", "o", "n", "e", ",", " ",
           "g", "u", "a", "r", "a", "n", "t", "e", "e", "d", " ", "p", "r", "o", "f", "i", "t", " ",
           "i", "n", "v", "e", "s", "t", "i", "n", "g", " ", "w", "i", "t", "h", " ", "u", "s", "!">>
TextC == <<"j", "u", "s", "t", " ", "s", "a", "y", "i", "n", "g", " ", "h", "i", " ",
           "t", "o", " ", "e", "v", "e", "r", "y", "o", "n", "e">>
TextKw == <<"f", "r", "e", "e", " ", "m", "o", "n", "e", "y", " ", "a", "t", " ",
            "t", "h", "e", " ", "c", "a", "s", "i", "n", "o">>
TextEmpty == <<>>

Texts == {TextA, TextB, TextC, TextKw, TextEmpty}
Captions == {TextEmpty, TextB}
ChatTypes == {"private", "group", "supergroup", "channel"}
\* GetChatMember: an error, or the member's status
MemberResults == {"error", "member", "administrator", "creator"}

Updates ==
  [hasMessage : BOOLEAN, text : Texts, caption : Captions, chatType : ChatTypes,
   isCommand : BOOLEAN, member : MemberResults, key : Keys, deleteErr : BOOLEAN]

\* The classifier's verdict on each text an update can carry
Verdicts == [t \in Texts \cup Captions |-> IsSpam(t)]

\* text := Message.Text, replaced by a non-empty Caption
MessageText(u) == IF u.caption # <<>> THEN u.caption ELSE u.text

IsAdmin(u) ==
  /\ u.chatType # "private"
  /\ u.member \in {"administrator", "creator"}

\* Variant: a command is handled like any other message
Route_NoCommandCheck(u) ==
  IF ~u.hasMessage THEN "nil"
  ELSE IF MessageText(u) = <<>> THEN "empty"
  ELSE IF IsAdmin(u) THEN "admin"
  ELSE IF u.chatType \notin {"group", "supergroup"} THEN "nogroup"
  ELSE IF ~Verdicts[MessageText(u)][1] THEN "clean"
  ELSE IF u.deleteErr THEN "delfail"
  ELSE "record"

\* Variant: a message without text is not skipped
Route_NoEmptyCheck(u) ==
  IF ~u.hasMessage THEN "nil"
  ELSE IF IsAdmin(u) THEN "admin"
  ELSE IF u.isCommand THEN "command"
  ELSE IF u.chatType \notin {"group", "supergroup"} THEN "nogroup"
  ELSE IF ~Verdicts[MessageText(u)][1] THEN "clean"
  ELSE IF u.deleteErr THEN "delfail"
  ELSE "record"

\* How far the loop body gets with update u before RecordSpam:
\*   "nil" no message, "empty" no text, "admin" sender is an admin,
\*   "command" a command, "nogroup" not a group chat, "clean" not spam,
\*   "delfail" the delete request failed, "record" deleted, RecordSpam is called
Route(u) ==
  IF ~u.hasMessage THEN "nil"
  ELSE IF MessageText(u) = <<>> THEN "empty"
  ELSE IF IsAdmin(u) THEN "admin"
  ELSE IF u.isCommand THEN "command"
  ELSE IF u.chatType \notin {"group", "supergroup"} THEN "nogroup"
  ELSE IF ~Verdicts[MessageText(u)][1] THEN "clean"
  ELSE IF u.deleteErr THEN "delfail"
  ELSE "record"

\* What the rest of the loop body uses of an update: whether RecordSpam is
\* called and, if so, the key of the sender; otherwise the iteration is done.
\* (The display reason only fills the notification text.)
Digest(u) ==
  IF Route(u) = "record"
  THEN [route |-> "record", chat |-> u.key[1], user |-> u.key[2]]
  ELSE [route |-> "done", chat |-> 0, user |-> 0]

UpdateDigests == {Digest(u) : u \in Updates}

NoUpdate == [route |-> "none", chat |-> 0, user |-> 0]

\* Variant: the branch is inverted
EnforceAct_Inverted(r) == IF r[2] THEN "warn" ELSE "ban"

\* The branch on shouldBan: "ban" is a ban request (which may fail, and is
\* followed by a notification when it succeeds), "warn" a warning
EnforceAct(r) == IF r[2] THEN "ban" ELSE "warn"

(* ------------------------------------------------------------------ *)
(* The loop observed: what each consumed update was                   *)
(* ------------------------------------------------------------------ *)
\* The conditions on the way to RecordSpam, each as the code tests it
GuardConditions == {"text", "notadmin", "notcommand", "group", "spam", "deleted"}

\* The conditions update u satisfies
Guard(u) ==
  {c \in GuardConditions :
     CASE c = "text"       -> u.hasMessage /\ MessageText(u) # <<>>
       [] c = "notadmin"   -> ~(u.chatType # "private" /\ u.member \in {"administrator", "creator"})
       [] c = "notcommand" -> ~u.isCommand
       [] c = "group"      -> u.chatType = "group" \/ u.chatType = "supergroup"
       [] c = "spam"       -> Verdicts[MessageText(u)][1]
       [] c = "deleted"    -> ~u.deleteErr}

\* The texts IsSpam is invoked with while update u is handled: none, or the
\* message text when the loop body gets as far as the classifier
ClassifierArgs(u) ==
  IF Route(u) \in {"clean", "delfail", "record"} THEN <<MessageText(u)>> ELSE <<>>

\* The record of the last update consumed: the texts IsSpam was invoked with
\* and the Text and Caption they were computed from, whether the update was a
\* message with neither text nor caption, whether RecordSpam was called and
\* the conditions the update then satisfied, and whether the update was
\* classified spam and its delete request failed
NoLast == [args |-> <<>>, text |-> <<>>, caption |-> <<>>, empty |-> FALSE,
           recorded |-> FALSE, guard |-> {}, delFailed |-> FALSE]

\* Nothing consumed yet: the number of updates consumed, per key the updates
\* that were classified spam and those of them whose delete request
\* succeeded, and the last update consumed
NoObs == [nmsgs |-> 0, spam |-> [k \in Keys |-> 0], deleted |-> [k \in Keys |-> 0],
          last |-> NoLast]

\* What is observed of update u: what the loop body does with it, its sender
\* if it was classified spam, whether it was, whether its delete request then
\* succeeded, and the record kept of it while it is the last update consumed
Seen(u) ==
  LET g == Guard(u)
      isSpam == (GuardConditions \ {"deleted"}) \subseteq g
      recorded == Digest(u).route = "record"
  IN [digest  |-> Digest(u),
      key     |-> IF isSpam THEN u.key ELSE <<0, 0>>,
      spam    |-> isSpam,
      deleted |-> g = GuardConditions,
      last    |-> [args |-> ClassifierArgs(u),
                   text |-> IF ClassifierArgs(u) # <<>> THEN u.text ELSE <<>>,
                   caption |-> IF ClassifierArgs(u) # <<>> THEN u.caption ELSE <<>>,
                   empty |-> u.hasMessage /\ u.text = <<>> /\ u.caption = <<>>,
                   recorded |-> recorded,
                   guard |-> IF recorded THEN g ELSE {},
                   delFailed |-> isSpam /\ u.deleteErr]]

UpdatesSeen == {Seen(u) : u \in Updates}

\* The history after an update seen as s has been consumed
Observe(o, s) ==
  [nmsgs   |-> o.nmsgs + 1,
   spam    |-> IF s.spam THEN [o.spam EXCEPT ![s.key] = @ + 1] ELSE o.spam,
   deleted |-> IF s.deleted THEN [o.deleted EXCEPT ![s.key] = @ + 1] ELSE o.deleted,
   last    |-> s.last]

(* ------------------------------------------------------------------ *)
(* The classifier alone: the texts it is given                        *)
(* ------------------------------------------------------------------ *)
FragHttp == <<"H", "T", "T", "P", ":", "/", "/", "x">>
FragTme == <<"t", ".", "m", "e", "/", "a">>
FragBitly == <<"B", "i", "t", ".", "l", "y">>
FragDomain == <<"m", "y", "-", "s", "i", "t", "e", ".", "I", "O">>
FragTiny == <<"T", "i", "n", "y", "U", "R", "L">>
FragWww == <<"W", "W", "W", ".">>
FragTelegram == <<"t", "e", "l", "e", "g", "r", "a", "m", ".", "m", "e">>
FragMention == <<"@", "b", "o", "b", "_", "1">>
FragCasino == <<"C", "A", "S", "I", "N", "O">>
FragBetting == <<"x", "B", "E", "T", "T", "I", "N", "G", "x">>
FragFreeMoney == <<"F", "r", "e", "e", " ", "M", "o", "n", "e", "y">>
FragHi == <<"h", "i">>
FragAt == <<"@">>
FragComet == <<"x", ".", "c", "o", "m", "e", "t">>
FragMail == <<"b", "o", "b", "@">>

\* Link tokens, mention tokens and keywords in mixed case (one keyword inside
\* a word), and fragments that are none of these ("@" alone, a label before
\* ".comet", "bob@")
LinkFrags == {FragHttp, FragTme, FragBitly, FragDomain, FragTiny, FragWww, FragTelegram}
MentionFrags == {FragMention}
KeywordFrags == {FragCasino, FragBetting, FragFreeMoney}
PlainFrags == {FragHi, FragAt, FragComet, FragMail}
Frags == LinkFrags \cup MentionFrags \cup KeywordFrags \cup PlainFrags

\* A sample is a sequence of at most MaxFrags fragments
Samples == UNION {[1..n -> Frags] : n \in 0..MaxFrags}

\* The text of a sample: its fragments, one space between two of them
RECURSIVE TextOf(_)
TextOf(smp) ==
  IF smp = <<>> THEN <<>>
  ELSE IF Len(smp) = 1 THEN smp[1]
  ELSE smp[1] \o <<" ">> \o TextOf(Tail(smp))

\* No text classified yet: the sample is drawn, IsSpam has not returned
NoSample == <<>>
NoVerdict == <<>>

(* ------------------------------------------------------------------ *)
(* State                                                              *)
(* ------------------------------------------------------------------ *)
VARIABLES
  db,       \* the store shared by the processes
  pc,       \* where each process is: "off", "fatal", "loop" (waiting for an
            \* update), "upsert", "select" (inside RecordSpam), "enforce"
            \* (RecordSpam has returned), "stopped"
  handle,   \* sd.db of each process: "none", "open", "closed"
  cur,      \* the update whose offense the process is recording
  ret,      \* what RecordSpam returned for it: <<count, shouldBan>>
  own,      \* history: the count the call's own upsert produced (0: none)
  retErr,   \* history: the statement of the call that failed, "none" if none
  ledgerOk, \* history: the store was opened and its schema created in this run
  servedBroken, \* history: an update was consumed in a run without that
  closeRows,\* history: the rows at the process's Close, kept until its first
            \* RecordSpam call after the restart has been enforced
  restarted,\* history: the process was closed and started again, and has not
            \* finished a RecordSpam call since
  hist,     \* history per key: RecordSpam calls, committed upserts, failed
            \* calls, counts returned by successful calls, callers, ban
            \* requests and warnings
  ncalls,     \* RecordSpam calls made so far
  starts,   \* process starts so far
  obs,      \* history of the observed loop (SpecLoop): the updates consumed
  sample,   \* the text given to the classifier (SpecClassify)
  verdict   \* what IsSpam returned for it (SpecClassify)

vars == <<db, pc, handle, cur, ret, own, retErr, ledgerOk, servedBroken,
          closeRows, restarted, hist, ncalls, starts, obs, sample, verdict>>

\* The variables of the other specifications
probes == <<obs, sample, verdict>>

KeyOf(d) == <<d.chat, d.user>>

NoHist == [calls |-> 0, commits |-> 0, fails |-> 0, rets |-> {}, callers |-> {},
           bans |-> 0, warns |-> 0]

Init ==
  /\ db = EmptyDB
  /\ pc = [p \in Procs |-> "off"]
  /\ handle = [p \in Procs |-> "none"]
  /\ cur = [p \in Procs |-> NoUpdate]
  /\ ret = [p \in Procs |-> <<0, FALSE>>]
  /\ own = [p \in Procs |-> 0]
  /\ retErr = [p \in Procs |-> "none"]
  /\ ledgerOk = [p \in Procs |-> FALSE]
  /\ servedBroken = FALSE
  /\ closeRows = [p \in Procs |-> <<>>]
  /\ restarted = [p \in Procs |-> FALSE]
  /\ hist = [k \in Keys |-> NoHist]
  /\ ncalls = 0
  /\ starts = 0
  /\ obs = NoObs
  /\ sample = NoSample
  /\ verdict = NoVerdict

(* ------------------------------------------------------------------ *)
(* Operations                                                         *)
(* ------------------------------------------------------------------ *)
PreErrs == {"none", "logfile", "token", "bot"}

\* main up to the loop: the log file, the token and the bot are set up, then
\* NewSpamDetector; any failure is log.Fatal. A stopped or failed process may
\* be started again by its operator.
Start(p) ==
  /\ pc[p] \in {"off", "fatal", "stopped"}
  /\ starts < MaxStarts
  /\ \E pre \in PreErrs :
       IF pre # "none"
       THEN /\ pc' = [pc EXCEPT ![p] = "fatal"]
            /\ handle' = [handle EXCEPT ![p] = "none"]
            /\ ledgerOk' = [ledgerOk EXCEPT ![p] = FALSE]
            /\ UNCHANGED db
       ELSE \E openErr \in BOOLEAN, createErr \in BOOLEAN :
              LET r == NewSpamDetector(db, openErr, createErr)
              IN  /\ pc' = [pc EXCEPT ![p] = IF r.err THEN "fatal" ELSE "loop"]
                  /\ handle' = [handle EXCEPT ![p] = IF r.err THEN "none" ELSE "open"]
                  /\ ledgerOk' = [ledgerOk EXCEPT ![p] = ~openErr /\ ~createErr]
                  /\ db' = r.db
  /\ starts' = starts + 1
  /\ restarted' = [restarted EXCEPT ![p] = (pc[p] = "stopped")]
  /\ closeRows' = [closeRows EXCEPT ![p] = IF pc[p] = "stopped" THEN @ ELSE <<>>]
  /\ UNCHANGED <<cur, ret, own, retErr, servedBroken, hist, ncalls>>
  /\ UNCHANGED probes

\* One iteration of the loop over the updates, up to the call of RecordSpam;
\* an update that does not come to RecordSpam is done with in this step
Handle(p, d) ==
  /\ pc[p] = "loop"
  /\ IF d.route = "record"
     THEN /\ ncalls < MaxCalls
          /\ ncalls' = ncalls + 1
          /\ pc' = [pc EXCEPT ![p] = "upsert"]
          /\ cur' = [cur EXCEPT ![p] = d]
          /\ hist' = [hist EXCEPT ![KeyOf(d)].calls = @ + 1,
                                  ![KeyOf(d)].callers = @ \cup {p}]
     ELSE UNCHANGED <<pc, cur, hist, ncalls>>
  /\ servedBroken' = (servedBroken \/ ~ledgerOk[p])
  /\ UNCHANGED <<db, handle, ret, own, retErr, ledgerOk, closeRows, restarted, starts>>

HandleUpdate(p) ==
  /\ \E d \in UpdateDigests : Handle(p, d)
  /\ UNCHANGED probes

\* RecordSpam, first statement: the upsert. It fails on an I/O error (ioErr),
\* on a closed handle or a missing table, and then RecordSpam returns.
Upsert(p) ==
  /\ pc[p] = "upsert"
  /\ \E ioErr \in BOOLEAN :
       LET k == KeyOf(cur[p])
           err == ioErr \/ handle[p] # "open" \/ ~db.exists
       IN  IF err
           THEN /\ ret' = [ret EXCEPT ![p] = RecordSpamReturn(TRUE, 0)]
                /\ retErr' = [retErr EXCEPT ![p] = "upsert"]
                /\ pc' = [pc EXCEPT ![p] = "enforce"]
                /\ hist' = [hist EXCEPT ![k].fails = @ + 1]
                /\ UNCHANGED <<db, own>>
           ELSE /\ db' = [db EXCEPT !.rows = UpsertRows(db.rows, k)]
                /\ own' = [own EXCEPT ![p] = UpsertRows(db.rows, k)[k]]
                /\ hist' = [hist EXCEPT ![k].commits = @ + 1]
                /\ pc' = [pc EXCEPT ![p] = "select"]
                /\ UNCHANGED <<ret, retErr>>
  /\ UNCHANGED <<handle, cur, ledgerOk, servedBroken, closeRows, restarted, ncalls,
                 starts>>
  /\ UNCHANGED probes

\* RecordSpam, second statement: the read-back, and the return
Select(p) ==
  /\ pc[p] = "select"
  /\ \E ioErr \in BOOLEAN :
       LET k == KeyOf(cur[p])
           q == SelectCount(db.rows, k)
           err == ioErr \/ handle[p] # "open" \/ ~db.exists \/ q.err
       IN  /\ ret' = [ret EXCEPT ![p] = RecordSpamReturn(err, q.count)]
           /\ retErr' = [retErr EXCEPT ![p] = IF err THEN "select" ELSE "none"]
           /\ hist' = IF err
                      THEN [hist EXCEPT ![k].fails = @ + 1]
                      ELSE [hist EXCEPT ![k].rets = @ \cup {q.count}]
  /\ pc' = [pc EXCEPT ![p] = "enforce"]
  /\ UNCHANGED <<db, handle, cur, own, ledgerOk, servedBroken, closeRows, restarted,
                 ncalls, starts>>
  /\ UNCHANGED probes

\* Variant: a ban removes the record of the banned user
Enforce_ResetOnBan(p) ==
  /\ pc[p] = "enforce"
  /\ IF EnforceAct(ret[p]) = "ban"
     THEN /\ hist' = [hist EXCEPT ![KeyOf(cur[p])].bans = @ + 1]
          /\ db' = [db EXCEPT !.rows = [x \in DOMAIN db.rows \ {KeyOf(cur[p])} |-> db.rows[x]]]
     ELSE /\ hist' = [hist EXCEPT ![KeyOf(cur[p])].warns = @ + 1]
          /\ db' = db
  /\ pc' = [pc EXCEPT ![p] = "loop"]
  /\ cur' = [cur EXCEPT ![p] = NoUpdate]
  /\ ret' = [ret EXCEPT ![p] = <<0, FALSE>>]
  /\ own' = [own EXCEPT ![p] = 0]
  /\ retErr' = [retErr EXCEPT ![p] = "none"]
  /\ restarted' = [restarted EXCEPT ![p] = FALSE]
  /\ closeRows' = [closeRows EXCEPT ![p] = <<>>]
  /\ UNCHANGED <<handle, ledgerOk, servedBroken, ncalls, starts>>
  /\ UNCHANGED probes

\* The branch on RecordSpam's result: a ban request or a warning; the
\* iteration ends and its locals are gone
Enforce(p) ==
  /\ pc[p] = "enforce"
  /\ hist' = IF EnforceAct(ret[p]) = "ban"
             THEN [hist EXCEPT ![KeyOf(cur[p])].bans = @ + 1]
             ELSE [hist EXCEPT ![KeyOf(cur[p])].warns = @ + 1]
  /\ pc' = [pc EXCEPT ![p] = "loop"]
  /\ cur' = [cur EXCEPT ![p] = NoUpdate]
  /\ ret' = [ret EXCEPT ![p] = <<0, FALSE>>]
  /\ own' = [own EXCEPT ![p] = 0]
  /\ retErr' = [retErr EXCEPT ![p] = "none"]
  /\ restarted' = [restarted EXCEPT ![p] = FALSE]
  /\ closeRows' = [closeRows EXCEPT ![p] = <<>>]
  /\ UNCHANGED <<db, handle, ledgerOk, servedBroken, ncalls, starts>>
  /\ UNCHANGED probes

\* The updates channel is closed: the loop ends and the deferred Close runs
Close(p) ==
  /\ pc[p] = "loop"
  /\ pc' = [pc EXCEPT ![p] = "stopped"]
  /\ handle' = [handle EXCEPT ![p] = IF @ # "none" THEN "closed" ELSE @]
  /\ closeRows' = [closeRows EXCEPT ![p] = db.rows]
  /\ UNCHANGED <<db, cur, ret, own, retErr, ledgerOk, servedBroken, restarted,
                 hist, ncalls, starts>>
  /\ UNCHANGED probes

\* The loop body with its update observed
WatchUpdate(p) ==
  /\ obs.nmsgs < MaxMsgs
  /\ \E s \in UpdatesSeen :
       /\ Handle(p, s.digest)
       /\ obs' = Observe(obs, s)
  /\ UNCHANGED <<sample, verdict>>

Next ==
  \E p \in Procs :
    \/ Start(p)
    \/ HandleUpdate(p)
    \/ Upsert(p)
    \/ Select(p)
    \/ Enforce(p)
    \/ Close(p)

Spec == Init /\ [][Next]_vars

\* The process whose loop is observed
Main == "p1"

\* One process, every update it consumes observed
NextLoop ==
  \/ Start(Main)
  \/ WatchUpdate(Main)
  \/ Upsert(Main)
  \/ Select(Main)
  \/ Enforce(Main)
  \/ Close(Main)

SpecLoop == Init /\ [][NextLoop]_vars

\* The classifier alone: a text is drawn, then IsSpam is applied to it
InitClassify ==
  /\ sample \in Samples
  /\ verdict = NoVerdict
  /\ obs = NoObs
  /\ db = EmptyDB
  /\ pc = [p \in Procs |-> "off"]
  /\ handle = [p \in Procs |-> "none"]
  /\ cur = [p \in Procs |-> NoUpdate]
  /\ ret = [p \in Procs |-> <<0, FALSE>>]
  /\ own = [p \in Procs |-> 0]
  /\ retErr = [p \in Procs |-> "none"]
  /\ ledgerOk = [p \in Procs |-> FALSE]
  /\ servedBroken = FALSE
  /\ closeRows = [p \in Procs |-> <<>>]
  /\ restarted = [p \in Procs |-> FALSE]
  /\ hist = [k \in Keys |-> NoHist]
  /\ ncalls = 0
  /\ starts = 0

Classify ==
  /\ verdict = NoVerdict
  /\ verdict' = IsSpam(TextOf(sample))
  /\ UNCHANGED <<db, pc, handle, cur, ret, own, retErr, ledgerOk, servedBroken,
                 closeRows, restarted, hist, ncalls, starts, obs, sample>>

SpecClassify == InitClassify /\ [][Classify]_vars

\* A deployment on a store that already holds two offenses of one sender,
\* recorded and answered by warnings in an earlier run
InitWarm ==
  /\ db = [CreateTable(EmptyDB) EXCEPT !.rows = UpsertRows(UpsertRows(@, <<1, 1>>), <<1, 1>>)]
  /\ hist = [k \in Keys |->
               IF k = <<1, 1>>
               THEN [NoHist EXCEPT !.calls = 2, !.commits = 2, !.rets = {1, 2},
                                   !.callers = {Main}, !.warns = 2]
               ELSE NoHist]
  /\ pc = [p \in Procs |-> "off"]
  /\ handle = [p \in Procs |-> "none"]
  /\ cur = [p \in Procs |-> NoUpdate]
  /\ ret = [p \in Procs |-> <<0, FALSE>>]
  /\ own = [p \in Procs |-> 0]
  /\ retErr = [p \in Procs |-> "none"]
  /\ ledgerOk = [p \in Procs |-> FALSE]
  /\ servedBroken = FALSE
  /\ closeRows = [p \in Procs |-> <<>>]
  /\ restarted = [p \in Procs |-> FALSE]
  /\ ncalls = 0
  /\ starts = 0
  /\ obs = NoObs
  /\ sample = NoSample
  /\ verdict = NoVerdict

SpecWarm == InitWarm /\ [][Next]_vars

(* ------------------------------------------------------------------ *)
(* Properties                                                         *)
(* ------------------------------------------------------------------ *)
InCall(p, k) == pc[p] \in {"upsert", "select"} /\ KeyOf(cur[p]) = k
Returned(p) == pc[p] = "enforce"
Succeeded(p) == pc[p] = "enforce" /\ retErr[p] = "none"

\* C1: no increment is lost: in every interleaving the stored count of a key
\* is the number of RecordSpam calls on it whose upsert committed (no record,
\* count 0, when none did).
C1_NoLostIncrement ==
  \A k \in Keys :
    /\ CountOf(db, k) = hist[k].commits
    /\ k \in DOMAIN db.rows <=> hist[k].commits > 0

\* Both processes have committed an upsert on the same key and are inside
\* RecordSpam together.
C1_Witness ==
  \E k \in Keys : hist[k].commits = 2 /\ \A p \in Procs : pc[p] = "select" /\ KeyOf(cur[p]) = k

\* C2: when the N RecordSpam calls made for a key have all succeeded, starting
\* from no record, the counts they returned are exactly 1..N, each once.
C2_ReturnsOneToN ==
  \A k \in Keys :
    (hist[k].fails = 0 /\ \A p \in Procs : ~InCall(p, k))
      => hist[k].rets = 1..hist[k].calls

\* C3: for every return of RecordSpam, successful or failed, shouldBan is true
\* iff the returned count is at least banThreshold.
C3_ShouldBanIffThreshold ==
  \A p \in Procs : Returned(p) => (ret[p][2] <=> ret[p][1] >= banThreshold)

\* A call has returned the threshold count with a ban decision, another has failed.
C3_Witness ==
  \E p, q \in Procs :
    /\ Returned(p) /\ ret[p] = <<banThreshold, TRUE>>
    /\ Returned(q) /\ retErr[q] # "none"

\* C4: a successful RecordSpam call returns shouldBan = true iff the count its
\* own increment produced is at least banThreshold; in particular a call whose
\* own increment produced less never returns a ban decision.
C4_BanIffOwnIncrement ==
  \A p \in Procs : Succeeded(p) => (ret[p][2] <=> own[p] >= banThreshold)

\* C5: with a single caller of a key and no persistence failure on it, the n-th
\* RecordSpam call for the key returns (n, n >= 3).
C5_NthCallReturnsN ==
  \A p \in Procs :
    LET k == KeyOf(cur[p])
    IN  (Returned(p) /\ hist[k].callers = {p} /\ hist[k].fails = 0)
          => ret[p] = <<hist[k].calls, hist[k].calls >= 3>>

\* The third consecutive call of a single caller has returned (3, true).
C5_Witness ==
  \E p \in Procs :
    /\ Returned(p) /\ ret[p] = <<3, TRUE>>
    /\ hist[KeyOf(cur[p])] = [NoHist EXCEPT !.calls = 3, !.commits = 3, !.rets = {1, 2, 3},
                                            !.callers = {p}, !.warns = 2]

\* C6: counts of distinct keys are independent: a step changes the record of
\* a key only if it is the upsert of a RecordSpam call for that key, and the
\* count a successful call returns is the number of upserts committed on its key.
C6_KeysIndependent ==
  [][/\ db'.rows # db.rows
          => \A k \in Keys :
               (CountOf(db', k) # CountOf(db, k) \/ (k \in DOMAIN db'.rows) # (k \in DOMAIN db.rows))
                 => \E p \in Procs : pc[p] = "upsert" /\ KeyOf(cur[p]) = k /\ pc'[p] = "select"
     /\ \A p \in Procs :
          (pc[p] = "select" /\ Succeeded(p)') => ret'[p][1] = hist[KeyOf(cur[p])].commits]_vars

\* Keys that share the chat and keys that share the user hold different counts.
C6_Witness ==
  /\ CountOf(db, <<1, 1>>) = 2
  /\ CountOf(db, <<1, 2>>) = 1
  /\ CountOf(db, <<2, 1>>) = 0
  /\ hist[<<1, 1>>].rets = {1, 2}
  /\ hist[<<1, 2>>].rets = {1}

\* C7: the stored count of every key never decreases and a record is never
\* removed, whatever step is taken (RecordSpam, a ban, a failure, Close, a restart).
C7_CountsNeverDecrease ==
  [][db' # db
       => \A k \in Keys :
            /\ CountOf(db', k) >= CountOf(db, k)
            /\ k \in DOMAIN db.rows => k \in DOMAIN db'.rows]_vars

\* A ban was requested for a key, and a process was closed and started again:
\* the record is still there.
C7_Witness ==
  \E k \in Keys, p \in Procs :
    /\ hist[k].bans >= 1
    /\ restarted[p] /\ pc[p] = "loop"
    /\ CountOf(db, k) >= banThreshold

\* C8: when the upsert or the read-back fails, RecordSpam returns (0, false)
\* for a message that was deleted, and the next step of the loop requests no
\* ban, leaves the store alone and is back at waiting for the next update.
C8_FailureDegrades ==
  [][\A p \in Procs :
       /\ retErr'[p] # "none"
            => (ret'[p] = <<0, FALSE>> /\ pc'[p] = "enforce" /\ cur'[p].route = "record")
       /\ (retErr[p] # "none" /\ pc'[p] # pc[p])
            => /\ pc'[p] = "loop"
               /\ hist'[KeyOf(cur[p])].bans = hist[KeyOf(cur[p])].bans
               /\ db' = db]_vars

\* Every call for a key has failed, one of them at the read-back, each was
\* answered by a warning, and the process is waiting for the next update.
C8_Witness ==
  \E k \in Keys, p \in Procs :
    /\ hist[k].fails = 2 /\ hist[k].calls = 2 /\ hist[k].warns = 2 /\ hist[k].bans = 0
    /\ CountOf(db, k) = 1
    /\ hist[k].callers = {p} /\ pc[p] = "loop"

\* C9: counts persist across restarts: Close and the creation of a detector
\* leave every record as it is, and the first successful RecordSpam call of a
\* restarted process, for a key only it records, returns the count the key
\* had at its Close plus one.
C9_AfterRestart ==
  \A p \in Procs :
    LET k == KeyOf(cur[p])
    IN  (Succeeded(p) /\ restarted[p] /\ hist[k].callers = {p})
          => ret[p][1] = CountOf([rows |-> closeRows[p]], k) + 1

C9_CountsSurviveRestart ==
  [][/\ C9_AfterRestart'
     /\ (starts' # starts \/ \E p \in Procs : pc[p] # "stopped" /\ pc'[p] = "stopped")
          => db'.rows = db.rows]_vars

\* A restarted process has recorded an offense for a key that had count 1
\* at its Close, and got 2.
C9_Witness ==
  \E p \in Procs :
    /\ Succeeded(p) /\ restarted[p]
    /\ hist[KeyOf(cur[p])].callers = {p}
    /\ CountOf([rows |-> closeRows[p]], KeyOf(cur[p])) = 1
    /\ ret[p] = <<2, FALSE>>

\* C10: a run in which opening the store or creating its schema failed ends
\* as fatal before the loop: every process past its start has an initialised
\* ledger, and no update is ever consumed in a run without one.
C10_InitFailureIsFatal ==
  /\ \A p \in Procs : pc[p] \notin {"off", "fatal"} => ledgerOk[p]
  /\ ~servedBroken

\* One process failed at its start and is fatal, the other is serving.
C10_Witness ==
  \E p, q \in Procs :
    /\ pc[p] = "fatal" /\ ~ledgerOk[p]
    /\ pc[q] = "enforce" /\ ledgerOk[q]

\* C11: every spam verdict is recorded as an offense: for every key the number
\* of RecordSpam calls equals the number of its updates the classifier was
\* invoked on and returned spam for.
C11_EverySpamVerdictRecorded ==
  \A k \in Keys : hist[k].calls = obs.spam[k]

\* The sample has a fragment of the set F
HasFrag(F) == \E i \in DOMAIN sample : sample[i] \in F

\* IsSpam has returned for the sample
Classified == verdict # NoVerdict

\* C12: link detection comes first and wins: for every text that contains a
\* link token (a link fragment of the sample, in any case, or whatever the link
\* pattern matches), IsSpam returns spam with the reason "URL detected",
\* whatever else the text contains, a mention and a keyword included.
C12_LinkWins ==
  (Classified /\ (HasFrag(LinkFrags) \/ linkPattern(TextOf(sample))))
    => verdict = <<TRUE, ReasonURL, DisplayURL>>

\* A mention, a keyword and then a link in upper case: the reason is the link
C12_Witness ==
  /\ sample = <<FragMention, FragCasino, FragDomain>>
  /\ verdict = <<TRUE, ReasonURL, DisplayURL>>

\* C13 as stated: for every text containing a mention token and a keyword
\* (in any case) IsSpam returns spam; for every text containing a keyword but
\* no mention token IsSpam returns not-spam.
C13_KeywordNeedsMention ==
  Classified =>
    /\ (HasFrag(MentionFrags) /\ HasFrag(KeywordFrags)) => verdict[1]
    /\ (HasFrag(KeywordFrags) /\ ~HasFrag(MentionFrags)) => ~verdict[1]

\* C13 amended: for every text containing a mention token and a keyword (in any
\* case) IsSpam returns spam; for every text containing a keyword but neither a
\* mention token nor a link token IsSpam returns not-spam, with empty reasons.
C13_KeywordNeedsMentionUnlessLink ==
  Classified =>
    /\ (HasFrag(MentionFrags) /\ HasFrag(KeywordFrags)) => verdict[1]
    /\ (HasFrag(KeywordFrags) /\ ~HasFrag(MentionFrags) /\ ~HasFrag(LinkFrags))
         => verdict = <<FALSE, ReasonNone, DisplayNone>>

\* Keywords, "@" alone and "bob@", but no mention: not spam
C13_Witness ==
  /\ sample = <<FragFreeMoney, FragAt, FragMail>>
  /\ verdict = <<FALSE, ReasonNone, DisplayNone>>

\* C14: default not-spam: a text with neither a link token nor a (mention,
\* keyword) pair gets not-spam with empty reasons, and the verdict is spam
\* exactly when hasLink or (hasMention and some keyword is contained in the
\* lower-cased text), both by the fragments the text was built from and by the
\* patterns.
C14_SpamIffLinkOrPair ==
  Classified =>
    LET text == TextOf(sample)
        byFrags == HasFrag(LinkFrags) \/ (HasFrag(MentionFrags) /\ HasFrag(KeywordFrags))
        byPatterns ==
          \/ linkPattern(text)
          \/ /\ mentionPattern(text)
             /\ \E i \in DOMAIN spamKeywords : Contains(ToLower(text), spamKeywords[i])
    IN /\ verdict[1] <=> byFrags
       /\ verdict[1] <=> byPatterns
       /\ ~byFrags => verdict = <<FALSE, ReasonNone, DisplayNone>>

\* A label before ".comet", a mention and no keyword: not spam, empty reasons
C14_Witness ==
  /\ sample = <<FragComet, FragMention, FragHi>>
  /\ verdict = <<FALSE, ReasonNone, DisplayNone>>

\* C15: empty text never reaches the classifier: every text IsSpam is invoked
\* with by the loop is the caption when the caption is non-empty and the
\* message text otherwise, and is not empty; a message with neither text nor
\* caption is skipped without invoking IsSpam; and IsSpam of the empty text is
\* not-spam with empty reasons.
C15_EmptyNeverClassified ==
  /\ \A i \in DOMAIN obs.last.args :
       /\ obs.last.args[i] # <<>>
       /\ obs.last.args[i] =
            IF obs.last.caption # <<>> THEN obs.last.caption ELSE obs.last.text
  /\ obs.last.empty => obs.last.args = <<>>
  /\ IsSpam(<<>>) = <<FALSE, ReasonNone, DisplayNone>>

\* A message with neither text nor caption was consumed and skipped, after one
\* whose caption was classified in place of its text
C15_Witness ==
  /\ obs.nmsgs = 2
  /\ obs.last.empty
  /\ obs.last.args = <<>>
  /\ \E k \in Keys : obs.spam[k] = 1
  /\ pc[Main] = "loop"

\* Warnings and ban requests issued for key k
Acts(k) == hist[k].bans + hist[k].warns

\* The state part of C16
C16_Guarded ==
  /\ obs.last.recorded => obs.last.guard = GuardConditions
  /\ pc[Main] \in {"upsert", "select", "enforce"} => obs.last.recorded
  /\ \A k \in Keys :
       /\ hist[k].calls <= obs.deleted[k]
       /\ obs.deleted[k] <= obs.nmsgs
       /\ Acts(k) <= hist[k].calls

\* C16: the enforcement guard of the main loop: RecordSpam is called, and a
\* warning or a ban request issued, for a message only if its text is
\* non-empty, the chat is a group or supergroup, it is not a command, the
\* sender was not reported administrator or creator by a successful lookup,
\* IsSpam returned spam and the delete request succeeded; an update whose
\* delete request failed leaves the store and the ledger history unchanged and
\* issues neither warning nor ban; each message causes at most one RecordSpam
\* call and at most one warning or ban request.
C16_EnforcementGuard ==
  [][/\ C16_Guarded'
     /\ (obs' # obs /\ obs'.last.delFailed) =>
          (db' = db /\ hist' = hist /\ pc' = pc)
     /\ hist' # hist =>
          \A k \in Keys :
            /\ hist'[k].calls # hist[k].calls =>
                 /\ hist'[k].calls = hist[k].calls + 1
                 /\ obs'.nmsgs = obs.nmsgs + 1 /\ obs'.last.recorded
                 /\ \A j \in Keys \ {k} : hist'[j] = hist[j]
            /\ Acts(k)' # Acts(k) =>
                 /\ Acts(k)' = Acts(k) + 1
                 /\ pc[Main] = "enforce" /\ pc'[Main] = "loop" /\ obs' = obs
                 /\ \A j \in Keys \ {k} : hist'[j] = hist[j]]_vars

\* A spam message was deleted, recorded and answered by a warning; the next
\* spam message of the same sender could not be deleted and changed nothing
C16_Witness ==
  \E k \in Keys :
    /\ obs.last.delFailed
    /\ obs.spam[k] = 2 /\ obs.deleted[k] = 1
    /\ hist[k].calls = 1 /\ hist[k].warns = 1 /\ hist[k].bans = 0
    /\ CountOf(db, k) = 1
    /\ pc[Main] = "loop"

\* A successful RecordSpam call on key k has returned shouldBan = TRUE: its ban
\* request has been made, or the call has just returned
BanReturned(k) ==
  \/ hist[k].bans > 0
  \/ \E q \in Procs : Succeeded(q) /\ KeyOf(cur[q]) = k /\ ret[q][2]

\* C17: the ban decision is latched per key: once a successful RecordSpam call
\* on a key has returned shouldBan = TRUE, every later successful call on the
\* same key returns shouldBan = TRUE too, in any interleaving of two processes
\* and across restarts.
C17_BanLatched ==
  [][\A p \in Procs :
       (pc[p] = "select" /\ Succeeded(p)' /\ BanReturned(KeyOf(cur[p])))
         => ret'[p][2]]_vars

\* The third offense was answered by a ban request; the process was closed and
\* started again, and its next call on the key returns (4, TRUE)
C17_Witness ==
  \E p \in Procs :
    /\ Succeeded(p) /\ restarted[p]
    /\ ret[p] = <<banThreshold + 1, TRUE>>
    /\ hist[KeyOf(cur[p])].bans = 1

\* C18: the value a successful call returns: with own the count its own
\* upsert produced and total the number of upserts committed on the key by
\* the time of its read, the call returns v with 1 <= own <= v <= total; v is
\* the stored count at the time of the read.
C18_ReturnBetweenOwnAndTotal ==
  [][\A p \in Procs :
       (pc[p] = "select" /\ Succeeded(p)') =>
         LET k == KeyOf(cur[p])
             v == ret'[p][1]
         IN /\ 1 <= own[p]
            /\ own[p] <= v
            /\ v <= hist[k].commits
            /\ v = CountOf(db, k)]_vars

\* Two calls on one key from no record: the call whose upsert produced 1 reads
\* after the other call's upsert and returns 2
C18_Witness ==
  \E p, q \in Procs :
    /\ Succeeded(p) /\ own[p] = 1 /\ ret[p][1] = 2
    /\ pc[q] = "select" /\ own[q] = 2 /\ KeyOf(cur[q]) = KeyOf(cur[p])
    /\ hist[KeyOf(cur[p])].commits = 2

\* C19: every warning the main loop sends reports a count c with
\* 1 <= c < banThreshold, and every ban request (and the notification that
\* follows a successful one) is for a count c >= banThreshold; c is the count
\* RecordSpam returned to the iteration.
C19_NotificationCounts ==
  [][\A p \in Procs :
       (pc[p] = "enforce" /\ pc'[p] = "loop") =>
         LET k == KeyOf(cur[p])
             c == ret[p][1]
         IN /\ hist'[k].warns # hist[k].warns => (1 <= c /\ c < banThreshold)
            /\ hist'[k].bans # hist[k].bans => c >= banThreshold]_vars

====
